---- MODULE Spec2Model ----
(***************************************************************************)
(* Model of backtestin01.py: the indicator pipeline (detect_inside_bar,    *)
(* detect_orb, calculate_rsi, calculate_atr), the signal scan of           *)
(* live_trading, and the order path place_trade / is_market_open /         *)
(* adjust_sl_tp.                                                           *)
(*                                                                         *)
(* Prices are integers counted in units of the instrument's point, so      *)
(* min_distance = trade_stops_level * point is an integer too.  Rows of a  *)
(* data frame are numbered from 0 as in the source; Row(s, i) reads row i. *)
(* A pandas NaN is the record NaN; a number v is Num(v).  A rolling mean   *)
(* is kept as its sum and its count of observations, so no division is     *)
(* rounded.  calculate_macd and the rs / rsi quotients are floating-point  *)
(* series that no order decision reads; they are not modelled.             *)
(***************************************************************************)
EXTENDS Integers, Sequences, FiniteSets, TLC

VARIABLES
    pc,        \* where live_trading stands: "loop" between symbols, "scan" in the row loop
    sym,       \* index into SYMBOLS of the for loop
    market,    \* the symbol_info answer is_market_open read for the symbol being scanned
    df,        \* the data frame of this symbol
    pos,       \* the next position of the row loop
    visited,   \* the symbols this pass of while True has started
    calls,     \* place_trade calls made for this symbol
    failed,    \* order_send calls for this symbol answered with a non-success retcode
    trade,     \* the place_trade call just made
    accepted,  \* per symbol, the orders the venue accepted
    intents    \* the place_trade calls of one whole scan

vars == <<pc, sym, market, df, pos, visited, calls, failed, trade, accepted, intents>>

----------------------------------------------------------------------------
(* Bounds of the model and constants of the program                        *)

\* largest price (in points) of a candle of a window given to the pipeline
MaxPrice == 3
\* largest price (in points) of a candle of a window the live feed delivers
MaxFeedPrice == 2
\* largest trade_stops_level the venue reports
MaxStops == 3
\* candles in a fetched window beyond the opening range
ExtraBars == 1
\* accepted orders counted per instrument before the venue stops accepting
MaxAccepted == 5

MAX_TRADES_PER_PAIR == 4
range_minutes == 5
period == 14

SYMBOLS == <<"EURUSDm", "USDJPYm", "USOILm">>

\* len(df): BACKTEST_BARS bounded to the opening range plus ExtraBars
BACKTEST_BARS == range_minutes + ExtraBars

----------------------------------------------------------------------------
(* Values                                                                  *)

NaN == [nan |-> TRUE, val |-> 0]
Num(v) == [nan |-> FALSE, val |-> v]

Row(s, i) == s[i + 1]
Abs(x) == IF x < 0 THEN -x ELSE x
Max2(a, b) == IF a > b THEN a ELSE b
Min2(a, b) == IF a < b THEN a ELSE b

RECURSIVE SeqMax(_)
SeqMax(s) == IF Len(s) = 1 THEN s[1] ELSE Max2(s[1], SeqMax(Tail(s)))

RECURSIVE SeqMin(_)
SeqMin(s) == IF Len(s) = 1 THEN s[1] ELSE Min2(s[1], SeqMin(Tail(s)))

\* np.maximum: a NaN operand makes the result NaN
NpMaximum(a, b) == IF a.nan \/ b.nan THEN NaN ELSE Num(Max2(a.val, b.val))
NumSub(a, b) == IF a.nan \/ b.nan THEN NaN ELSE Num(a.val - b.val)
NumAbs(a) == IF a.nan THEN NaN ELSE Num(Abs(a.val))

\* Series.shift(1): row 0 has no predecessor and reads NaN
Shift(s, i) == IF i = 0 THEN NaN ELSE Num(Row(s, i - 1))

\* first row of the window of a rolling(window=p) ending at row i
WindowStart(i, p) == Max2(0, i - p + 1)

RECURSIVE NumSumFrom(_, _, _)
NumSumFrom(s, a, b) ==
    IF a > b THEN 0
    ELSE (IF Row(s, a).nan THEN 0 ELSE Row(s, a).val) + NumSumFrom(s, a + 1, b)

RECURSIVE NumCountFrom(_, _, _)
NumCountFrom(s, a, b) ==
    IF a > b THEN 0
    ELSE (IF Row(s, a).nan THEN 0 ELSE 1) + NumCountFrom(s, a + 1, b)

\* rolling(window=p, min_periods=1).mean() at row i of a series of numbers
\* and NaNs: NaN rows are left out of the sum and of the count, and fewer
\* than one observation gives NaN
RollingMean(s, i, p) ==
    LET a == WindowStart(i, p)
        n == NumCountFrom(s, a, i)
    IN  IF n < 1 THEN [nan |-> TRUE, sum |-> 0, cnt |-> 0]
        ELSE [nan |-> FALSE, sum |-> NumSumFrom(s, a, i), cnt |-> n]

----------------------------------------------------------------------------
(* get_historical_data: the frame of the fetched rates                     *)

Frame(rates) ==
    [high |-> [k \in 1..Len(rates) |-> rates[k].high],
     low |-> [k \in 1..Len(rates) |-> rates[k].low],
     close |-> [k \in 1..Len(rates) |-> rates[k].close],
     inside_bar |-> <<>>, orb_long |-> <<>>, orb_short |-> <<>>,
     gain |-> <<>>, loss |-> <<>>, avg_gain |-> <<>>, avg_loss |-> <<>>,
     tr |-> <<>>, atr |-> <<>>]

NRows(d) == Len(d.high)
Index(d) == 0..(NRows(d) - 1)

\* the frame before any fetch
NoFrame == Frame(<<>>)

----------------------------------------------------------------------------
(* Indicator pipeline                                                      *)

\* a comparison against the NaN that shift(1) leaves in row 0 is False
InsideBarAt(d, i) ==
    /\ i > 0
    /\ Row(d.high, i - 1) > Row(d.high, i)
    /\ Row(d.low, i - 1) < Row(d.low, i)

detect_inside_bar(d) ==
    [d EXCEPT !.inside_bar = [k \in 1..NRows(d) |-> InsideBarAt(d, k - 1)]]

\* df.iloc[:range_minutes]: the first rows, all of them when the frame is shorter
OpeningRows(d, rm) == Min2(rm, NRows(d))
OpeningHigh(d, rm) == SeqMax(SubSeq(d.high, 1, OpeningRows(d, rm)))
OpeningLow(d, rm) == SeqMin(SubSeq(d.low, 1, OpeningRows(d, rm)))

\* mutant of OrbLongAt: >= where the source has >
OrbLongAtOrEqual(d, i, high) == Row(d.high, i) >= high

OrbLongAt(d, i, high) == Row(d.high, i) > high
OrbShortAt(d, i, low) == Row(d.low, i) < low

detect_orb(d, rm) ==
    LET high == OpeningHigh(d, rm)
        low == OpeningLow(d, rm)
    IN  [d EXCEPT !.orb_long = [k \in 1..NRows(d) |-> OrbLongAt(d, k - 1, high)],
                  !.orb_short = [k \in 1..NRows(d) |-> OrbShortAt(d, k - 1, low)]]

\* delta = close.diff(); np.where(delta > 0, delta, 0) reads NaN > 0 as False
Delta(d, i) == NumSub(Num(Row(d.close, i)), Shift(d.close, i))
GainAt(d, i) == LET x == Delta(d, i) IN IF ~x.nan /\ x.val > 0 THEN x.val ELSE 0
LossAt(d, i) == LET x == Delta(d, i) IN IF ~x.nan /\ x.val < 0 THEN -x.val ELSE 0

calculate_rsi(d, p) ==
    LET gain == [k \in 1..NRows(d) |-> Num(GainAt(d, k - 1))]
        loss == [k \in 1..NRows(d) |-> Num(LossAt(d, k - 1))]
    IN  [d EXCEPT !.gain = gain, !.loss = loss,
                  !.avg_gain = [k \in 1..NRows(d) |-> RollingMean(gain, k - 1, p)],
                  !.avg_loss = [k \in 1..NRows(d) |-> RollingMean(loss, k - 1, p)]]

TrueRangeAt(d, i) ==
    NpMaximum(Num(Row(d.high, i) - Row(d.low, i)),
              NpMaximum(NumAbs(NumSub(Num(Row(d.high, i)), Shift(d.close, i))),
                        NumAbs(NumSub(Num(Row(d.low, i)), Shift(d.close, i)))))

calculate_atr(d, p) ==
    LET tr == [k \in 1..NRows(d) |-> TrueRangeAt(d, k - 1)]
    IN  [d EXCEPT !.tr = tr, !.atr = [k \in 1..NRows(d) |-> RollingMean(tr, k - 1, p)]]

\* live_trading, the pipeline calls on a fetched frame
Pipeline(d) ==
    calculate_atr(
        calculate_rsi(detect_orb(detect_inside_bar(d), range_minutes), period),
        period)

\* the frame of rows 0..n-1 of the fetched rates of d, before any pipeline call
Iloc(d, n) ==
    Frame([k \in 1..n |-> [high |-> d.high[k], low |-> d.low[k], close |-> d.close[k]]])

----------------------------------------------------------------------------
(* Signal scan of live_trading: for i in range(1, len(df)), three ifs      *)

\* the scan's positions in program order: position p is the stage-th if of
\* the iteration at row i
LastPos(d) == 3 * (NRows(d) - 1)
PosRow(p) == ((p - 1) \div 3) + 1
PosStage(p) == ((p - 1) % 3) + 1

\* mutant of InsideBarBreakout: the close is compared with the prior low
InsideBarBreakoutOverLow(d, i) == Row(d.inside_bar, i) /\ Row(d.close, i) > Row(d.low, i - 1)

InsideBarBreakout(d, i) == Row(d.inside_bar, i) /\ Row(d.close, i) > Row(d.high, i - 1)

Trigger(d, i, stage) ==
    CASE stage = 1 -> InsideBarBreakout(d, i)
      [] stage = 2 -> Row(d.orb_long, i)
      [] stage = 3 -> Row(d.orb_short, i)

\* mutants of LongTarget and ShortTarget: reward equal to risk
LongTargetOneToOne(price, low) == price + (price - low)
ShortTargetOneToOne(price, high) == price - (high - price)

LongTarget(price, low) == price + (price - low) * 2
ShortTarget(price, high) == price - (high - price) * 2

\* the arguments of the place_trade call of position (i, stage)
Intent(d, i, stage, symbol) ==
    LET price == Row(d.close, i)
    IN  CASE stage = 1 ->
               [order_type |-> "BUY", symbol |-> symbol, price |-> price,
                sl |-> Row(d.low, i - 1), tp |-> LongTarget(price, Row(d.low, i - 1)),
                reason |-> "Inside Bar Breakout", row |-> i]
          [] stage = 2 ->
               [order_type |-> "BUY", symbol |-> symbol, price |-> price,
                sl |-> Row(d.low, i - 1), tp |-> LongTarget(price, Row(d.low, i - 1)),
                reason |-> "Opening Range Breakout", row |-> i]
          [] stage = 3 ->
               [order_type |-> "SELL", symbol |-> symbol, price |-> price,
                sl |-> Row(d.high, i - 1), tp |-> ShortTarget(price, Row(d.high, i - 1)),
                reason |-> "Opening Range Breakout", row |-> i]

Fires(d, p) == Trigger(d, PosRow(p), PosStage(p))

\* the first position at or after p whose if is taken; LastPos(d) + 1 when
\* the loop ends without another place_trade call
RECURSIVE NextFire(_, _)
NextFire(d, p) ==
    IF p > LastPos(d) THEN p
    ELSE IF Fires(d, p) THEN p ELSE NextFire(d, p + 1)

\* the place_trade calls of one whole scan, in program order
RECURSIVE IntentsFrom(_, _, _)
IntentsFrom(d, p, symbol) ==
    IF p > LastPos(d) THEN <<>>
    ELSE (IF Fires(d, p) THEN <<Intent(d, PosRow(p), PosStage(p), symbol)>> ELSE <<>>)
         \o IntentsFrom(d, p + 1, symbol)

Intents(d, symbol) == IntentsFrom(d, 1, symbol)

----------------------------------------------------------------------------
(* The venue: symbol_info and order_send                                   *)

\* symbol_info returned None
NoInfo == [none |-> TRUE, visible |-> FALSE, trade_stops_level |-> 0, point |-> 0]

\* every answer of one symbol_info read; a price is counted in points
SymbolInfos ==
    {NoInfo} \cup
    [none : {FALSE}, visible : BOOLEAN, trade_stops_level : 0..MaxStops, point : {1}]

\* the answers of a read by is_market_open, which looks at visible alone:
\* one answer stands for all that differ in the fields it does not read
MarketInfos == {m \in SymbolInfos : m.trade_stops_level = 0}

Retcodes == {"TRADE_RETCODE_DONE", "TRADE_RETCODE_REJECT"}

\* mutant of is_market_open: visible is not looked at
is_market_open_any_visible(market_info) == ~market_info.none

is_market_open(market_info) == ~(market_info.none \/ ~market_info.visible)

MinDistance(symbol_info) == symbol_info.trade_stops_level * symbol_info.point

AdjustSl(price, sl, min_distance) ==
    IF Abs(price - sl) < min_distance
    THEN (IF sl < price THEN price - min_distance ELSE price + min_distance)
    ELSE sl

\* mutant of AdjustTp: a target equal to the price is left alone
AdjustTpUnlessEqual(price, tp, min_distance) ==
    IF Abs(price - tp) < min_distance /\ tp # price
    THEN (IF tp > price THEN price + min_distance ELSE price - min_distance)
    ELSE tp

AdjustTp(price, tp, min_distance) ==
    IF Abs(price - tp) < min_distance
    THEN (IF tp > price THEN price + min_distance ELSE price - min_distance)
    ELSE tp

\* (None, None) is the record with none = TRUE
adjust_sl_tp(symbol_info, price, sl, tp) ==
    IF symbol_info.none THEN [none |-> TRUE, sl |-> 0, tp |-> 0]
    ELSE [none |-> FALSE,
          sl |-> AdjustSl(price, sl, MinDistance(symbol_info)),
          tp |-> AdjustTp(price, tp, MinDistance(symbol_info))]

\* the record of no place_trade call
NoTrade ==
    [called |-> FALSE, order_type |-> "", symbol |-> "", price |-> 0, sl |-> 0,
     tp |-> 0, reason |-> "", row |-> 0, none1 |-> FALSE, visible1 |-> FALSE,
     read2 |-> FALSE, none2 |-> FALSE, visible2 |-> FALSE, min_distance |-> 0,
     order_sends |-> 0, req_sl |-> 0, req_tp |-> 0, comment |-> "", retcode |-> ""]

\* the order_send calls place_trade makes once SL and TP are adjusted
OrderSends(retcode) == 1

\* one place_trade call: m1 is the answer is_market_open reads, m2 the answer
\* adjust_sl_tp reads, retcode the venue's answer to order_send.  The record
\* keeps the call's arguments, what each read said and the request sent.
place_trade(intent, m1, m2, retcode) ==
    LET call == [NoTrade EXCEPT !.called = TRUE, !.order_type = intent.order_type,
                                !.symbol = intent.symbol, !.price = intent.price,
                                !.sl = intent.sl, !.tp = intent.tp,
                                !.reason = intent.reason, !.row = intent.row,
                                !.none1 = m1.none, !.visible1 = m1.visible]
        read == [call EXCEPT !.read2 = TRUE, !.none2 = m2.none, !.visible2 = m2.visible]
        adj == adjust_sl_tp(m2, intent.price, intent.sl, intent.tp)
    IN  IF ~is_market_open(m1) THEN call
        ELSE IF adj.none THEN read
        ELSE [read EXCEPT !.min_distance = MinDistance(m2),
                          !.order_sends = OrderSends(retcode),
                          !.req_sl = adj.sl, !.req_tp = adj.tp,
                          !.comment = intent.reason, !.retcode = retcode]

\* what the venue can answer to the calls one place_trade makes: a call
\* that is not made has the single answer that is never read
SecondRead(m1) == IF is_market_open(m1) THEN SymbolInfos ELSE {NoInfo}
OrderAnswers(m1, m2) == IF is_market_open(m1) /\ ~m2.none THEN Retcodes ELSE {""}

----------------------------------------------------------------------------
(* Inputs                                                                  *)

\* a candle as the feed delivers it; the close is not tied to low..high
Candles(top) ==
    {c \in [high : 0..top, low : 0..top, close : 0..top] : c.low <= c.high}

WellFormed(c) == c.low <= c.close /\ c.close <= c.high

\* candle a everywhere but rows j..k-1, which are candle b
Plateau(a, b, j, k) == [n \in 1..BACKTEST_BARS |-> IF j < n /\ n <= k THEN b ELSE a]

\* windows of at most two candle shapes, the second on one run of rows
PlateauWindows ==
    {Plateau(a, b, j, k) : a \in Candles(MaxPrice), b \in Candles(MaxPrice),
                            j \in 0..BACKTEST_BARS, k \in 0..BACKTEST_BARS}

\* windows that change shape once
StepWindows ==
    {Plateau(a, b, j, BACKTEST_BARS) : a \in Candles(MaxFeedPrice),
                                       b \in Candles(MaxFeedPrice),
                                       j \in 0..BACKTEST_BARS}

\* a flat window whose last candle breaks out of the opening range both ways
BreakoutWindow ==
    Plateau([high |-> 1, low |-> 1, close |-> 1], [high |-> 2, low |-> 0, close |-> 1],
            BACKTEST_BARS - 1, BACKTEST_BARS)

----------------------------------------------------------------------------
(* live_trading                                                            *)

NSymbols == Len(SYMBOLS)

Start ==
    /\ sym = 1
    /\ market = <<>>
    /\ pos = 0
    /\ visited = <<>>
    /\ calls = 0
    /\ failed = 0
    /\ trade = NoTrade
    /\ accepted = [s \in 1..NSymbols |-> 0]
    /\ intents = <<>>

Init == pc = "loop" /\ df = NoFrame /\ Start

\* the for loop moves on to the symbol after this one
NextSymbol(s) == s + 1

\* is_market_open is False: continue
visit_closed ==
    /\ pc = "loop"
    /\ sym <= NSymbols
    /\ \E market_info \in MarketInfos : ~is_market_open(market_info)
    /\ market' = <<>>
    /\ visited' = Append(visited, SYMBOLS[sym])
    /\ sym' = NextSymbol(sym)
    /\ df' = NoFrame
    /\ pos' = 0
    /\ calls' = 0
    /\ failed' = 0
    /\ trade' = NoTrade
    /\ UNCHANGED <<pc, accepted, intents>>

\* get_historical_data returns None: continue
visit_no_data ==
    /\ pc = "loop"
    /\ sym <= NSymbols
    /\ \E market_info \in MarketInfos : is_market_open(market_info)
    /\ market' = <<>>
    /\ visited' = Append(visited, SYMBOLS[sym])
    /\ sym' = NextSymbol(sym)
    /\ df' = NoFrame
    /\ pos' = 0
    /\ calls' = 0
    /\ failed' = 0
    /\ trade' = NoTrade
    /\ UNCHANGED <<pc, accepted, intents>>

\* the market is open and the feed delivers a window: run the pipeline
visit_scan(feed) ==
    /\ pc = "loop"
    /\ sym <= NSymbols
    /\ \E market_info \in MarketInfos :
         /\ is_market_open(market_info)
         /\ market' = <<market_info>>
    /\ \E rates \in feed : df' = Pipeline(Frame(rates))
    /\ visited' = Append(visited, SYMBOLS[sym])
    /\ pc' = "scan"
    /\ pos' = 1
    /\ calls' = 0
    /\ failed' = 0
    /\ trade' = NoTrade
    /\ UNCHANGED <<sym, accepted, intents>>

\* mutant of AfterCall: a refused order ends the row loop
AfterCallStopOnFailure(d, q, t) ==
    IF t.order_sends > 0 /\ t.retcode # "TRADE_RETCODE_DONE" THEN LastPos(d) + 1 ELSE q + 1

\* the position the row loop goes on from after the place_trade call of
\* position q, whatever the call did
AfterCall(d, q, t) == q + 1

\* the scan runs to its next taken if and makes that place_trade call
scan_place(counting) ==
    /\ pc = "scan"
    /\ NextFire(df, pos) <= LastPos(df)
    /\ LET q == NextFire(df, pos)
           intent == Intent(df, PosRow(q), PosStage(q), SYMBOLS[sym])
       IN  \E m1 \in MarketInfos :
           \E m2 \in SecondRead(m1) :
           \E retcode \in OrderAnswers(m1, m2) :
             LET t == place_trade(intent, m1, m2, retcode)
                 done == t.order_sends > 0 /\ t.retcode = "TRADE_RETCODE_DONE"
             IN  /\ (counting /\ done) => accepted[sym] < MaxAccepted
                 /\ trade' = t
                 /\ calls' = calls + 1
                 /\ failed' = IF t.order_sends > 0 /\ ~done THEN failed + 1 ELSE failed
                 /\ pos' = AfterCall(df, q, t)
                 /\ accepted' = IF counting /\ done
                                THEN [accepted EXCEPT ![sym] = @ + 1]
                                ELSE accepted
    /\ UNCHANGED <<pc, sym, market, df, visited, intents>>

\* the scan runs to the end of the frame without another place_trade call;
\* the frame is not read again
scan_end ==
    /\ pc = "scan"
    /\ NextFire(df, pos) > LastPos(df)
    /\ pc' = "loop"
    /\ sym' = NextSymbol(sym)
    /\ df' = NoFrame
    /\ pos' = 0
    /\ calls' = 0
    /\ failed' = 0
    /\ trade' = NoTrade
    /\ market' = <<>>
    /\ UNCHANGED <<visited, accepted, intents>>

\* time.sleep(60), then the next pass of while True
sleep ==
    /\ pc = "loop"
    /\ sym > NSymbols
    /\ sym' = 1
    /\ market' = <<>>
    /\ visited' = <<>>
    /\ df' = NoFrame
    /\ pos' = 0
    /\ calls' = 0
    /\ failed' = 0
    /\ trade' = NoTrade
    /\ UNCHANGED <<pc, accepted, intents>>

Next ==
    \/ visit_closed
    \/ visit_no_data
    \/ visit_scan(StepWindows)
    \/ scan_place(FALSE)
    \/ scan_end
    \/ sleep

Spec == Init /\ [][Next]_vars

\* the same loop against a feed that delivers one window again and again,
\* with the venue's count of the orders it accepted
NextCount ==
    \/ visit_closed
    \/ visit_no_data
    \/ visit_scan({BreakoutWindow})
    \/ scan_place(TRUE)
    \/ scan_end
    \/ sleep

SpecCount == Init /\ [][NextCount]_vars

----------------------------------------------------------------------------
(* The pipeline and the scan as functions of one fetched window            *)

InitPipeline ==
    /\ pc = "fetched"
    /\ Start
    /\ \E rates \in PlateauWindows : df = Frame(rates)

run_pipeline ==
    /\ pc = "fetched"
    /\ df' = Pipeline(df)
    /\ pc' = "computed"
    /\ UNCHANGED <<sym, market, pos, visited, calls, failed, trade, accepted, intents>>

run_scan ==
    /\ pc = "computed"
    /\ intents' = Intents(df, SYMBOLS[sym])
    /\ pc' = "scanned"
    /\ UNCHANGED <<sym, market, df, pos, visited, calls, failed, trade, accepted>>

NextPipeline == run_pipeline \/ run_scan

SpecPipeline == InitPipeline /\ [][NextPipeline]_vars

----------------------------------------------------------------------------
(* Properties                                                              *)

Sent == trade.order_sends > 0

\* C1: every order handed to order_send has its stop and its target at least
\* min_distance = trade_stops_level * point away from the price, min_distance
\* being the value adjust_sl_tp read, for either direction and any raw stop
\* or target, the entry price itself included, and for min_distance = 0.
MinDistanceKept ==
    Sent => /\ Abs(trade.price - trade.req_sl) >= trade.min_distance
            /\ Abs(trade.price - trade.req_tp) >= trade.min_distance

\* C1 witness: an order sent whose raw stop and raw target were both the
\* entry price, nearer than a positive min_distance.
MinDistanceWitness ==
    /\ Sent
    /\ trade.min_distance > 0
    /\ trade.sl = trade.price
    /\ trade.tp = trade.price
    /\ trade.req_sl # trade.sl
    /\ trade.req_tp # trade.tp

\* C2, as claimed: when a stop or target is clamped, the side is set by the
\* order direction: a BUY gets stop = price - d and target = price + d, a
\* SELL gets stop = price + d and target = price - d.
ClampSideByDirection ==
    Sent =>
      LET d == trade.min_distance
          long == trade.order_type = "BUY"
      IN  /\ Abs(trade.price - trade.sl) < d =>
               trade.req_sl = (IF long THEN trade.price - d ELSE trade.price + d)
          /\ Abs(trade.price - trade.tp) < d =>
               trade.req_tp = (IF long THEN trade.price + d ELSE trade.price - d)

\* C3, as claimed: no order is sent for an instrument that any of the
\* symbol_info reads made for it reports as None or as not visible, also
\* when the answers differ from read to read.
NoOrderWhenUntradable ==
    Sent => /\ ~market[1].none /\ market[1].visible
            /\ ~trade.none1 /\ trade.visible1
            /\ ~trade.none2 /\ trade.visible2

\* C3, amended: the row loop runs only after live_trading's is_market_open
\* read an answer that is not None and is visible, and an order is sent only
\* after place_trade's is_market_open read such an answer too and
\* adjust_sl_tp's read was not None; what adjust_sl_tp's read says about
\* visible is not looked at.
OrderNeedsOpenReads ==
    /\ pc = "scan" => (market # <<>> /\ ~market[1].none /\ market[1].visible)
    /\ Sent => /\ ~trade.none1 /\ trade.visible1
               /\ trade.read2 /\ ~trade.none2

\* C3 witness: the instrument was visible at live_trading's read and hidden
\* at place_trade's read, and the call sent nothing.
OrderNeedsOpenReadsWitness ==
    /\ pc = "scan"
    /\ trade.called
    /\ ~trade.none1 /\ ~trade.visible1
    /\ trade.order_sends = 0

\* rows 1..range_minutes of the frame, those whose predecessor lies in the
\* opening range
OpeningSuccessors(d) == 1..Min2(range_minutes, NRows(d) - 1)

StrictlyInside(d, i) ==
    /\ Row(d.high, i - 1) > Row(d.high, i)
    /\ Row(d.low, i - 1) < Row(d.low, i)

IntentsAtRow(s, i) == SelectSeq(s, LAMBDA t : t.row = i)

\* C4: where candle i lies strictly inside candle i-1, closes above
\* high[i-1] and i-1 is in the opening range, the scan makes exactly one
\* place_trade call at row i: a BUY with reason "Inside Bar Breakout", raw
\* stop low[i-1] and raw target close[i] + 2 * (close[i] - low[i-1]); the
\* opening-range ifs are not taken at row i.
InsideBreakoutAlone ==
    pc = "scanned" =>
      \A i \in OpeningSuccessors(df) :
        (StrictlyInside(df, i) /\ Row(df.close, i) > Row(df.high, i - 1)) =>
          IntentsAtRow(intents, i) =
            <<[order_type |-> "BUY", symbol |-> SYMBOLS[sym],
               price |-> Row(df.close, i), sl |-> Row(df.low, i - 1),
               tp |-> Row(df.close, i) + 2 * (Row(df.close, i) - Row(df.low, i - 1)),
               reason |-> "Inside Bar Breakout", row |-> i]>>

\* C4 witness: a scanned window whose row range_minutes is such a candle.
InsideBreakoutWitness ==
    /\ pc = "scanned"
    /\ StrictlyInside(df, range_minutes)
    /\ Row(df.close, range_minutes) > Row(df.high, range_minutes - 1)
    /\ Len(intents) = 1

\* C5: every place_trade call of the scan has price = close[i]; a BUY has
\* stop low[i-1] and target - price = 2 * (price - low[i-1]); a SELL has
\* stop high[i-1] and price - target = 2 * (high[i-1] - price).
RawTargetTwiceRawStop ==
    pc = "scanned" =>
      \A k \in 1..Len(intents) :
        LET t == intents[k]
            i == t.row
        IN  /\ i \in 1..(NRows(df) - 1)
            /\ t.price = Row(df.close, i)
            /\ t.order_type = "BUY" =>
                 /\ t.sl = Row(df.low, i - 1)
                 /\ t.tp - t.price = 2 * (t.price - Row(df.low, i - 1))
            /\ t.order_type = "SELL" =>
                 /\ t.sl = Row(df.high, i - 1)
                 /\ t.price - t.tp = 2 * (Row(df.high, i - 1) - t.price)

\* C5 witness: a scan that made a BUY call and a SELL call, each with a raw
\* stop away from the price.
RawTargetWitness ==
    /\ pc = "scanned"
    /\ \E k \in 1..Len(intents) : intents[k].order_type = "BUY" /\ intents[k].sl # intents[k].price
    /\ \E k \in 1..Len(intents) : intents[k].order_type = "SELL" /\ intents[k].sl # intents[k].price

\* C6, as claimed: the orders accepted for one instrument, none of them
\* closed, never number more than MAX_TRADES_PER_PAIR.
OpenTradesBounded == \A s \in 1..NSymbols : accepted[s] <= MAX_TRADES_PER_PAIR

\* the derived fields of row i of a frame the pipeline has run on
Derived(d, i) ==
    [inside_bar |-> Row(d.inside_bar, i), orb_long |-> Row(d.orb_long, i),
     orb_short |-> Row(d.orb_short, i), gain |-> Row(d.gain, i),
     loss |-> Row(d.loss, i), avg_gain |-> Row(d.avg_gain, i),
     avg_loss |-> Row(d.avg_loss, i), tr |-> Row(d.tr, i), atr |-> Row(d.atr, i)]

\* C7: each derived field of row i computed by the pipeline on rows 0..i
\* alone equals the field of row i computed on the whole window, the rows
\* before range_minutes included.
IndicatorsCausal ==
    pc = "computed" =>
      \A i \in Index(df) : Derived(Pipeline(Iloc(df, i + 1)), i) = Derived(df, i)

\* C7 witness: a computed window whose opening range on a prefix is
\* narrower than on the whole window, on the high side and on the low side.
IndicatorsCausalWitness ==
    /\ pc = "computed"
    /\ \E i \in 0..(range_minutes - 2) :
         /\ OpeningHigh(Iloc(df, i + 1), range_minutes) < OpeningHigh(df, range_minutes)
         /\ OpeningLow(Iloc(df, i + 1), range_minutes) > OpeningLow(df, range_minutes)

\* C8, as claimed: the true range of row 0 is high[0] - low[0], atr[0] is
\* that number, and for 1 <= i < period atr[i] is a sum of i + 1 true ranges.
AtrCountsRowZero ==
    pc = "computed" =>
      /\ Row(df.tr, 0) = Num(Row(df.high, 0) - Row(df.low, 0))
      /\ Row(df.atr, 0) = [nan |-> FALSE, sum |-> Row(df.high, 0) - Row(df.low, 0), cnt |-> 1]
      /\ \A i \in Index(df) : (1 <= i /\ i < period) => Row(df.atr, i).cnt = i + 1

\* place_trade calls the row loop has to have made before position p
RECURSIVE FiresBefore(_, _)
FiresBefore(d, p) ==
    IF p <= 1 THEN 0
    ELSE FiresBefore(d, p - 1) + (IF Fires(d, p - 1) THEN 1 ELSE 0)

\* C9: a pass starts each symbol once, in list order, whatever happened to
\* the symbols before it; a symbol whose market is closed or whose fetch
\* returns nothing gets no place_trade call; in the row loop every taken if
\* before the current position has had exactly one place_trade call,
\* whatever the earlier calls did, and each call makes at most one
\* order_send call.
NoAbortNoRetry ==
    /\ visited = SubSeq(SYMBOLS, 1, Len(visited))
    /\ Len(visited) = (IF pc = "scan" THEN sym ELSE sym - 1)
    /\ pc = "loop" => (calls = 0 /\ failed = 0 /\ ~trade.called)
    /\ pc = "scan" => /\ calls = FiresBefore(df, pos)
                      /\ pos <= LastPos(df) + 1
    /\ failed <= calls
    /\ trade.order_sends <= 1

\* C9 witness: in the last symbol of a pass, after a symbol before it was
\* passed over, an order is accepted after an earlier order of the same
\* symbol was refused.
NoAbortNoRetryWitness ==
    /\ pc = "scan"
    /\ sym = NSymbols
    /\ calls = 2
    /\ failed = 1
    /\ Sent
    /\ trade.retcode = "TRADE_RETCODE_DONE"

AllWellFormed(d) ==
    \A i \in Index(d) :
      Row(d.low, i) <= Row(d.close, i) /\ Row(d.close, i) <= Row(d.high, i)

\* C10: on a window of well-formed candles the inside-bar breakout if is
\* taken at no row, so every place_trade call, and so every order, carries
\* the reason "Opening Range Breakout".
NoInsideBreakoutWellFormed ==
    (pc \in {"computed", "scanned"} /\ AllWellFormed(df)) =>
      /\ \A i \in 1..(NRows(df) - 1) : ~InsideBarBreakout(df, i)
      /\ \A k \in 1..Len(intents) : intents[k].reason = "Opening Range Breakout"

\* C10 witness: a scanned window of well-formed candles that has an inside
\* bar.
NoInsideBreakoutWitness ==
    /\ pc = "scanned"
    /\ AllWellFormed(df)
    /\ \E i \in 1..(NRows(df) - 1) : Row(df.inside_bar, i)

====
